---- MODULE Spec2Model ----
(***************************************************************************)
(* Model of cynapse/neurons/elephant/elephant.rs: the SignedFile footer     *)
(* codec (sign, to_bytes, from_bytes, verify, is_signed) and the Python     *)
(* bindings built on it (sign_file, verify_file, is_signed_file,            *)
(* generate_keypair).                                                       *)
(*                                                                         *)
(* Bytes are integers 0..255, byte strings are sequences of bytes.  Rust's  *)
(* half-open, zero-based slice s[a..b] is Slice(s, a, b).                   *)
(*                                                                         *)
(* blake3 and ed25519-dalek are libraries outside the repository.  They are *)
(* modelled as ideal primitives: a deterministic 32-byte digest, a          *)
(* deterministic 64-byte signature that only the holder of the signing key  *)
(* can produce, and a public-key decoding that rejects some 32-byte         *)
(* strings but never a key derived from a signing key.                      *)
(***************************************************************************)
EXTENDS Integers, Sequences, FiniteSets, TLC

VARIABLES content, signing_key, signed, data, parsed, verdict_signed,
          verdict_parsed, detected, fs, ret

core_vars == <<content, signing_key, signed, data, parsed, verdict_signed,
               verdict_parsed, detected>>
vars == <<content, signing_key, signed, data, parsed, verdict_signed,
          verdict_parsed, detected, fs, ret>>

---------------------------------------------------------------------------
(* Program constants *)

FOOTER_SIZE == 256
SIGNATURE_LEN == 64
PUBLIC_KEY_LEN == 32
SECRET_KEY_LEN == 32
MAGIC_OFFSET == 96
MAGIC_END == 100
PADDING_LEN == 156
DETECT_FROM == 160
DETECT_TO == 156
MAGIC == <<83, 73, 71, 33>>

(* Bounds of the model *)

MaxContentLen == 2
NumKeys == 2

---------------------------------------------------------------------------
(* Byte strings *)

Fill(b, n) == [i \in 1..n |-> b]

InBounds(s, a, b) == 0 <= a /\ a <= b /\ b <= Len(s)

Slice(s, a, b) == SubSeq(s, a + 1, b)

---------------------------------------------------------------------------
(* The cryptographic libraries *)

RECURSIVE PowMod(_, _, _)
PowMod(b, k, p) ==
    IF k = 0 THEN 1
    ELSE IF k % 2 = 0
         THEN LET h == PowMod(b, k \div 2, p) IN (h * h) % p
         ELSE (b * PowMod(b, k - 1, p)) % p

RECURSIVE Horner(_, _, _, _)
Horner(s, lo, hi, p) ==
    IF lo > hi THEN 0
    ELSE (Horner(s, lo, hi - 1, p) * 257 + s[hi] + 1) % p

\* The bytes s[lo..hi] read as a number in base 257, modulo p (in chunks,
\* to keep the recursion shallow).
RECURSIVE Absorb(_, _, _, _)
Absorb(s, lo, hi, p) ==
    IF hi - lo < 16 THEN Horner(s, lo, hi, p)
    ELSE LET mid == (lo + hi) \div 2
         IN (Absorb(s, lo, mid, p) * PowMod(257, hi - mid, p)
             + Absorb(s, mid + 1, hi, p)) % p

\* blake3::Hasher: update(content); finalize() -- a 32-byte digest.
blake3_hash(c) ==
    LET h1 == (Absorb(c, 1, Len(c), 46337) + Len(c)) % 46337
        h2 == (Absorb(c, 1, Len(c), 46327) + 7 * Len(c)) % 46327
    IN [i \in 1..32 |->
          CASE i % 4 = 1 -> h1 % 256
            [] i % 4 = 2 -> h1 \div 256
            [] i % 4 = 3 -> h2 % 256
            [] OTHER     -> h2 \div 256]

\* SigningKey::verifying_key().to_bytes(): the 32-byte public key of a
\* signing key, derived deterministically.
verifying_key(sk) ==
    [i \in 1..PUBLIC_KEY_LEN |->
        IF i = 1 THEN (2 * sk[i]) % 256 ELSE (5 * sk[i] + 3) % 256]

\* VerifyingKey::from_bytes succeeds: the bytes decode to a curve point.
IsValidPoint(pk) == pk[1] % 2 = 0

\* SigningKey::sign(msg).to_bytes(): the 64 signature bytes R || S.
ed25519_sign(sk, msg) ==
    [i \in 1..SIGNATURE_LEN |->
        IF i <= 32 THEN (msg[i] + sk[i] + 1) % 256
        ELSE (3 * msg[i - 32] + 7 * sk[i - 32] + 5) % 256]

\* The signing keys of the model.
KeyOf(i) == Fill(15 + i, SECRET_KEY_LEN)

SigningKeys == {KeyOf(i) : i \in 1..NumKeys}

\* VerifyingKey::verify(msg, sig) is Ok: sig is the signature on msg of the
\* signing key behind pk (signatures cannot be forged).
ed25519_verify(pk, msg, sig) ==
    \E sk \in SigningKeys : verifying_key(sk) = pk /\ ed25519_sign(sk, msg) = sig

---------------------------------------------------------------------------
(* SignedFile *)

None == [tag |-> "None"]
Some(a) == [tag |-> "Some", val |-> a]
Panic == [tag |-> "panic"]
Unset == [tag |-> "unset"]

\* Faulty variant of sign: hasher.update(content) is forgotten, so the
\* digest of the empty input is signed.
sign_without_update(c, sk) ==
    [content |-> c,
     signature |-> ed25519_sign(sk, blake3_hash(<<>>)),
     public_key |-> verifying_key(sk)]

\* SignedFile::sign
sign(c, sk) ==
    LET hash == blake3_hash(c)
        signature == ed25519_sign(sk, hash)
        public_key == verifying_key(sk)
    IN [content |-> c, signature |-> signature, public_key |-> public_key]

\* Faulty variants of to_bytes: one padding byte too few, one too many, and
\* the public key written before the signature.
to_bytes_short_padding(a) ==
    a.content \o a.signature \o a.public_key \o MAGIC \o Fill(0, PADDING_LEN - 1)

to_bytes_long_padding(a) ==
    a.content \o a.signature \o a.public_key \o MAGIC \o Fill(0, PADDING_LEN + 1)

to_bytes_key_first(a) ==
    a.content \o a.public_key \o a.signature \o MAGIC \o Fill(0, PADDING_LEN)

\* SignedFile::to_bytes
to_bytes(a) ==
    a.content \o a.signature \o a.public_key \o MAGIC \o Fill(0, PADDING_LEN)

\* Faulty variant of from_bytes: <= for < in the length test.
from_bytes_length_le(d) ==
    IF Len(d) <= FOOTER_SIZE THEN None
    ELSE LET content_len == Len(d) - FOOTER_SIZE
             footer == Slice(d, content_len, Len(d))
         IN IF Slice(footer, MAGIC_OFFSET, MAGIC_END) # MAGIC THEN None
            ELSE Some([content |-> Slice(d, 0, content_len),
                       signature |-> Slice(footer, 0, SIGNATURE_LEN),
                       public_key |-> Slice(footer, SIGNATURE_LEN,
                                            SIGNATURE_LEN + PUBLIC_KEY_LEN)])

\* SignedFile::from_bytes
from_bytes(d) ==
    IF Len(d) < FOOTER_SIZE THEN None
    ELSE LET content_len == Len(d) - FOOTER_SIZE
             footer == Slice(d, content_len, Len(d))
         IN IF ~InBounds(footer, MAGIC_OFFSET, MAGIC_END) THEN Panic
            ELSE IF Slice(footer, MAGIC_OFFSET, MAGIC_END) # MAGIC THEN None
            ELSE IF ~InBounds(footer, 0, SIGNATURE_LEN)
                    \/ ~InBounds(footer, SIGNATURE_LEN, SIGNATURE_LEN + PUBLIC_KEY_LEN)
                 THEN Panic
            ELSE Some([content |-> Slice(d, 0, content_len),
                       signature |-> Slice(footer, 0, SIGNATURE_LEN),
                       public_key |-> Slice(footer, SIGNATURE_LEN,
                                            SIGNATURE_LEN + PUBLIC_KEY_LEN)])

\* Faulty variant of verify: a signature mismatch is reported as an error.
verify_mismatch_is_error(a) ==
    IF ~IsValidPoint(a.public_key) THEN "Err(InvalidKey)"
    ELSE IF ed25519_verify(a.public_key, blake3_hash(a.content), a.signature)
         THEN "Ok(true)"
         ELSE "Err(InvalidKey)"

\* SignedFile::verify
verify(a) ==
    IF ~IsValidPoint(a.public_key) THEN "Err(InvalidKey)"
    ELSE LET hash == blake3_hash(a.content)
         IN IF ed25519_verify(a.public_key, hash, a.signature)
            THEN "Ok(true)"
            ELSE "Ok(false)"

\* Faulty variants of is_signed: the marker looked for at the start of the
\* padding, and the length test left out.
is_signed_wrong_offset(d) ==
    IF Len(d) < FOOTER_SIZE THEN "false"
    ELSE IF Slice(d, Len(d) - DETECT_TO, Len(d) - DETECT_TO + Len(MAGIC)) = MAGIC
         THEN "true" ELSE "false"

is_signed_no_length_test(d) ==
    IF ~InBounds(d, Len(d) - DETECT_FROM, Len(d) - DETECT_TO) THEN "panic"
    ELSE IF Slice(d, Len(d) - DETECT_FROM, Len(d) - DETECT_TO) = MAGIC
         THEN "true" ELSE "false"

\* SignedFile::is_signed
is_signed(d) ==
    IF Len(d) < FOOTER_SIZE THEN "false"
    ELSE IF ~InBounds(d, Len(d) - DETECT_FROM, Len(d) - DETECT_TO) THEN "panic"
    ELSE IF Slice(d, Len(d) - DETECT_FROM, Len(d) - DETECT_TO) = MAGIC
         THEN "true" ELSE "false"

---------------------------------------------------------------------------
(* Inputs of the model *)

ContentBytes == {0, 83}

ShortContents == UNION {[1..n -> ContentBytes] : n \in 0..MaxContentLen}

\* Longer contents: just under and exactly one footer long, and a file that
\* was signed before (signing is not refused for it).
LongContents ==
    {Fill(0, FOOTER_SIZE - 1), Fill(0, FOOTER_SIZE), to_bytes(sign(<<>>, KeyOf(1)))}

Contents == ShortContents \cup LongContents

WrongMagics == {<<83, 73, 71, 0>>, <<0, 0, 0, 0>>, <<73, 71, 33, 83>>}

KeyFields == {Fill(0, PUBLIC_KEY_LEN), Fill(83, PUBLIC_KEY_LEN), verifying_key(KeyOf(1))}

\* Foreign byte strings: of every length around the footer size, with and
\* without the marker, with the marker one byte off either way.
RawData ==
    {Fill(b, n) : b \in {0, 83},
                  n \in {1, MAGIC_END, FOOTER_SIZE - 1, FOOTER_SIZE, FOOTER_SIZE + 1}}
    \cup {pre \o Fill(0, SIGNATURE_LEN) \o k \o m \o Fill(0, PADDING_LEN) :
            pre \in {<<>>, <<83>>}, k \in KeyFields, m \in {MAGIC} \cup WrongMagics}
    \cup {pre \o Fill(0, SIGNATURE_LEN + PUBLIC_KEY_LEN) \o MAGIC \o Fill(0, p) :
            pre \in {<<>>, <<83>>}, p \in {PADDING_LEN - 1, PADDING_LEN + 1}}
    \cup {Fill(0, n) \o MAGIC \o Fill(0, PADDING_LEN) :
            n \in {0, MAGIC_OFFSET - 1, MAGIC_OFFSET}}

---------------------------------------------------------------------------
(* The codec, one action per operation *)

NoFiles == [p \in {} |-> <<>>]

NoCall == [op |-> "none"]

Init ==
    /\ content \in Contents
    /\ signing_key \in SigningKeys
    /\ signed = Unset
    /\ data = Unset
    /\ parsed = Unset
    /\ verdict_signed = "unset"
    /\ verdict_parsed = "unset"
    /\ detected = "unset"
    /\ fs = NoFiles
    /\ ret = NoCall

\* A new buffer: what was computed from the old one is dropped.
SetData(d) ==
    /\ data' = Some(d)
    /\ parsed' = Unset
    /\ verdict_parsed' = "unset"
    /\ detected' = "unset"

Serialized == signed.tag = "Some" /\ data = Some(to_bytes(signed.val))

Sign ==
    /\ signed = Unset
    /\ signed' = Some(sign(content, signing_key))
    /\ UNCHANGED <<content, signing_key, data, parsed, verdict_signed,
                   verdict_parsed, detected, fs, ret>>

VerifySigned ==
    /\ signed.tag = "Some"
    /\ verdict_signed = "unset"
    /\ verdict_signed' = verify(signed.val)
    /\ UNCHANGED <<content, signing_key, signed, data, parsed, verdict_parsed,
                   detected, fs, ret>>

ToBytes ==
    /\ signed.tag = "Some"
    /\ ~Serialized
    /\ SetData(to_bytes(signed.val))
    /\ UNCHANGED <<content, signing_key, signed, verdict_signed, fs, ret>>

\* The buffer is the unsigned content itself.
LoadContent ==
    /\ data # Some(content)
    /\ SetData(content)
    /\ UNCHANGED <<content, signing_key, signed, verdict_signed, fs, ret>>

\* The buffer is a foreign byte string.
LoadRaw ==
    /\ data = Unset
    /\ \E d \in RawData : SetData(d)
    /\ UNCHANGED <<content, signing_key, signed, verdict_signed, fs, ret>>

\* The content bytes of a serialized artifact are replaced, the footer kept.
TamperContent ==
    /\ Serialized
    /\ \E c \in Contents \ {content} :
         SetData(c \o Slice(data.val, Len(data.val) - FOOTER_SIZE, Len(data.val)))
    /\ UNCHANGED <<content, signing_key, signed, verdict_signed, fs, ret>>

\* Only the 4 marker bytes of a serialized artifact are changed.
CorruptMagic ==
    /\ Serialized
    /\ \E m \in WrongMagics :
         LET n == Len(data.val) - FOOTER_SIZE + MAGIC_OFFSET
         IN SetData(Slice(data.val, 0, n) \o m
                    \o Slice(data.val, n + Len(MAGIC), Len(data.val)))
    /\ UNCHANGED <<content, signing_key, signed, verdict_signed, fs, ret>>

\* The last byte of a serialized artifact is removed.
Truncate ==
    /\ Serialized
    /\ SetData(Slice(data.val, 0, Len(data.val) - 1))
    /\ UNCHANGED <<content, signing_key, signed, verdict_signed, fs, ret>>

FromBytes ==
    /\ data.tag = "Some"
    /\ parsed = Unset
    /\ parsed' = from_bytes(data.val)
    /\ UNCHANGED <<content, signing_key, signed, data, verdict_signed,
                   verdict_parsed, detected, fs, ret>>

VerifyParsed ==
    /\ parsed.tag = "Some"
    /\ verdict_parsed = "unset"
    /\ verdict_parsed' = verify(parsed.val)
    /\ UNCHANGED <<content, signing_key, signed, data, parsed, verdict_signed,
                   detected, fs, ret>>

IsSigned ==
    /\ data.tag = "Some"
    /\ detected = "unset"
    /\ detected' = is_signed(data.val)
    /\ UNCHANGED <<content, signing_key, signed, data, parsed, verdict_signed,
                   verdict_parsed, fs, ret>>

Next ==
    \/ Sign
    \/ VerifySigned
    \/ ToBytes
    \/ LoadContent
    \/ LoadRaw
    \/ TamperContent
    \/ CorruptMagic
    \/ Truncate
    \/ FromBytes
    \/ VerifyParsed
    \/ IsSigned

Spec == Init /\ [][Next]_vars

---------------------------------------------------------------------------
(* The Python bindings *)

Ok(v) == [tag |-> "Ok", val |-> v]
Err(kind, msg) == [tag |-> "Err", kind |-> kind, msg |-> msg]
Panicked == [tag |-> "Panic"]

\* std::fs::read succeeds
Readable(files, path) == path \in DOMAIN files

\* std::fs::write
WriteFile(files, path, bytes) ==
    [q \in DOMAIN files \cup {path} |-> IF q = path THEN bytes ELSE files[q]]

\* sign_file: the result, the files afterwards and the paths written.
sign_file(files, path, key_path) ==
    IF ~Readable(files, path) \/ ~Readable(files, key_path)
    THEN [result |-> Err("IOError", "read"), files |-> files, wrote |-> {}]
    ELSE LET c == files[path]
             key_bytes == files[key_path]
         IN IF ~InBounds(key_bytes, 0, SECRET_KEY_LEN)
            THEN \* key_bytes[..32] is out of range
                 [result |-> Panicked, files |-> files, wrote |-> {}]
            ELSE LET head == Slice(key_bytes, 0, SECRET_KEY_LEN)
                 IN IF Len(head) # SECRET_KEY_LEN
                    THEN [result |-> Err("PyValueError", "Invalid key"),
                          files |-> files, wrote |-> {}]
                    ELSE LET a == sign(c, head)
                             output_path == path \o ".signed"
                         IN [result |-> Ok(output_path),
                             files |-> WriteFile(files, output_path, to_bytes(a)),
                             wrote |-> {output_path}]

\* Faulty variant of verify_file: a malformed key is reported as false.
verify_file_key_error_is_false(files, path) ==
    IF ~Readable(files, path) THEN Err("IOError", "read")
    ELSE LET s == from_bytes(files[path])
         IN IF s = None THEN Err("PyValueError", "Not a signed file")
            ELSE IF s = Panic THEN Panicked
            ELSE IF verify(s.val) = "Ok(true)" THEN Ok("true") ELSE Ok("false")

\* verify_file
verify_file(files, path) ==
    IF ~Readable(files, path) THEN Err("IOError", "read")
    ELSE LET s == from_bytes(files[path])
         IN IF s = None THEN Err("PyValueError", "Not a signed file")
            ELSE IF s = Panic THEN Panicked
            ELSE LET v == verify(s.val)
                 IN CASE v = "Ok(true)" -> Ok("true")
                      [] v = "Ok(false)" -> Ok("false")
                      [] OTHER -> Err("PyRuntimeError", "Invalid key length")

\* is_signed_file
is_signed_file(files, path) ==
    IF ~Readable(files, path) THEN Err("IOError", "read")
    ELSE LET b == is_signed(files[path])
         IN IF b = "panic" THEN Panicked ELSE Ok(b)

private_path == "elephant_private.key"
public_path == "elephant_public.key"

\* The files a run starts with: a document (unsigned, signed before, or
\* foreign bytes that carry the marker or nearly), and a key file of 31, 32
\* or 33 bytes or none at all.
DocFiles ==
    {<<>>, <<83>>, to_bytes(sign(<<>>, KeyOf(1)))}
    \cup {Fill(0, SIGNATURE_LEN) \o k \o MAGIC \o Fill(0, PADDING_LEN) : k \in KeyFields}
    \cup {Fill(0, MAGIC_OFFSET) \o <<83, 73, 71, 0>> \o Fill(0, PADDING_LEN)}

KeyFiles ==
    SigningKeys \cup {Slice(KeyOf(1), 0, SECRET_KEY_LEN - 1), KeyOf(1) \o <<0>>}

DocPaths == {"doc", "nofile"}
KeyPaths == {"key", private_path, "nofile"}
ReadPaths == {"doc", "doc.signed", "nofile"}

FileInit ==
    /\ content = <<>>
    /\ signing_key = KeyOf(1)
    /\ signed = Unset
    /\ data = Unset
    /\ parsed = Unset
    /\ verdict_signed = "unset"
    /\ verdict_parsed = "unset"
    /\ detected = "unset"
    /\ \E d \in DocFiles :
         \/ fs = [p \in {"doc"} |-> d]
         \/ \E k \in KeyFiles :
              fs = [p \in {"doc", "key"} |-> IF p = "doc" THEN d ELSE k]
    /\ ret = NoCall

SignFile ==
    /\ \E path \in DocPaths, key_path \in KeyPaths :
         \E r \in {sign_file(fs, path, key_path)} :
            /\ fs' = r.files
            /\ ret' = [op |-> "sign_file", path |-> path, key_path |-> key_path,
                       result |-> r.result, wrote |-> r.wrote]
    /\ UNCHANGED core_vars

VerifyFile ==
    /\ \E path \in ReadPaths :
         ret' = [op |-> "verify_file", path |-> path,
                 result |-> verify_file(fs, path)]
    /\ UNCHANGED <<fs, content, signing_key, signed, data, parsed, verdict_signed,
                   verdict_parsed, detected>>

IsSignedFile ==
    /\ \E path \in ReadPaths :
         ret' = [op |-> "is_signed_file", path |-> path,
                 result |-> is_signed_file(fs, path)]
    /\ UNCHANGED <<fs, content, signing_key, signed, data, parsed, verdict_signed,
                   verdict_parsed, detected>>

\* generate_keypair: OsRng draws any signing key.
GenerateKeypair ==
    /\ ~Readable(fs, private_path)
    /\ \E sk \in SigningKeys :
         fs' = WriteFile(WriteFile(fs, private_path, sk),
                         public_path, verifying_key(sk))
    /\ ret' = [op |-> "generate_keypair", result |-> Ok(<<private_path, public_path>>)]
    /\ UNCHANGED core_vars

\* Someone edits a freshly signed file: other content bytes, or another
\* public key in the footer.
CorruptSignedFile ==
    /\ ret.op = "sign_file"
    /\ ret.result.tag = "Ok"
    /\ LET out == ret.result.val
           d == fs[out]
           n == Len(d) - FOOTER_SIZE
       IN \/ \E c \in {<<>>, <<0>>} \ {Slice(d, 0, n)} :
               fs' = WriteFile(fs, out, c \o Slice(d, n, Len(d)))
          \/ \E k \in KeyFields \ {Slice(d, n + SIGNATURE_LEN, n + MAGIC_OFFSET)} :
               fs' = WriteFile(fs, out, Slice(d, 0, n + SIGNATURE_LEN) \o k
                                        \o Slice(d, n + MAGIC_OFFSET, Len(d)))
    /\ ret' = NoCall
    /\ UNCHANGED core_vars

FileNext ==
    \/ SignFile
    \/ VerifyFile
    \/ IsSignedFile
    \/ GenerateKeypair
    \/ CorruptSignedFile

FileSpec == FileInit /\ [][FileNext]_vars

---------------------------------------------------------------------------
(* Shapes of the buffer *)

\* The last FOOTER_SIZE bytes of a buffer at least that long.
Footer(d) == SubSeq(d, Len(d) - FOOTER_SIZE + 1, Len(d))

\* The bytes before the last FOOTER_SIZE bytes.
Body(d) == SubSeq(d, 1, Len(d) - FOOTER_SIZE)

\* The buffer is a serialized artifact whose content bytes were replaced.
Tampered ==
    /\ signed.tag = "Some"
    /\ data.tag = "Some"
    /\ Len(data.val) >= FOOTER_SIZE
    /\ Footer(data.val) = Footer(to_bytes(signed.val))
    /\ Body(data.val) # content

\* The buffer is a serialized artifact but for its 4 marker bytes.
MagicCorrupted ==
    /\ signed.tag = "Some"
    /\ data.tag = "Some"
    /\ Len(data.val) = Len(to_bytes(signed.val))
    /\ \A i \in 1..Len(data.val) :
         LET j == i - (Len(data.val) - FOOTER_SIZE)
         IN IF j > MAGIC_OFFSET /\ j <= MAGIC_END
            THEN TRUE
            ELSE data.val[i] = to_bytes(signed.val)[i]
    /\ data.val # to_bytes(signed.val)

\* The buffer is a serialized artifact without its last byte.
Truncated ==
    /\ signed.tag = "Some"
    /\ data.tag = "Some"
    /\ Len(data.val) + 1 = Len(to_bytes(signed.val))
    /\ data.val = SubSeq(to_bytes(signed.val), 1, Len(data.val))

\* The 4 bytes at offsets 96..100 of the last 256 bytes are the marker.
HasMarker(d) ==
    /\ Len(d) >= FOOTER_SIZE
    /\ <<Footer(d)[97], Footer(d)[98], Footer(d)[99], Footer(d)[100]>> = <<83, 73, 71, 33>>

\* The digest is treated as collision-free: no two byte strings of the
\* model have the same digest.
CollisionFree ==
    \A c1, c2 \in Contents \cup DocFiles \cup {Slice(d, 0, Len(d) - FOOTER_SIZE) :
                                                 d \in {r \in RawData : Len(r) >= FOOTER_SIZE}} :
        blake3_hash(c1) = blake3_hash(c2) => c1 = c2

---------------------------------------------------------------------------
(* Properties of the codec *)

\* C1 (round trip): parsing the serialization of the artifact returned by
\* sign gives an artifact, with the content that was signed, byte for byte,
\* and the signature and public key of the signed artifact.
C1_RoundTrip ==
    (Serialized /\ parsed # Unset) =>
        /\ parsed.tag = "Some"
        /\ parsed.val.content = content
        /\ parsed.val.signature = signed.val.signature
        /\ parsed.val.public_key = signed.val.public_key

C1_Witness ==
    /\ Serialized /\ parsed.tag = "Some" /\ content = <<>>
    /\ Len(data.val) = FOOTER_SIZE

\* C2 (verification soundness): verify on the artifact returned by sign is
\* Ok(true), and so is verify on the artifact parsed back from its
\* serialization.
C2_VerifySound ==
    /\ verdict_signed # "unset" => verdict_signed = "Ok(true)"
    /\ (Serialized /\ verdict_parsed # "unset") => verdict_parsed = "Ok(true)"

C2_Witness ==
    /\ Serialized /\ verdict_parsed = "Ok(true)" /\ verdict_signed = "Ok(true)"
    /\ Len(content) > 0

\* C3 (tamper detection): when the content bytes of a serialized artifact
\* are replaced by a different content and the footer is kept, from_bytes
\* still returns an artifact and verify on it is Ok(false).
C3_TamperDetected ==
    Tampered =>
        /\ parsed # Unset => parsed.tag = "Some"
        /\ verdict_parsed # "unset" => verdict_parsed = "Ok(false)"

C3_Witness ==
    /\ Tampered /\ parsed.tag = "Some" /\ verdict_parsed = "Ok(false)"
    /\ Len(parsed.val.content) = Len(content)

\* C4 (footer layout): to_bytes gives the content followed by the 64
\* signature bytes, the 32 public-key bytes, the 4 bytes "SIG!" and 156
\* zero bytes, len(content) + 256 bytes in all; it is a function of the
\* artifact and leaves the artifact unchanged.
C4_FooterLayout ==
    [][ToBytes =>
        LET a == signed.val
            n == Len(a.content)
            out == data'.val
        IN /\ signed' = signed
           /\ Len(a.signature) = 64 /\ Len(a.public_key) = 32
           /\ Len(out) = n + 256
           /\ \A i \in 1..Len(out) :
                out[i] = IF i <= n THEN a.content[i]
                         ELSE IF i <= n + 64 THEN a.signature[i - n]
                         ELSE IF i <= n + 96 THEN a.public_key[i - n - 64]
                         ELSE IF i <= n + 100
                              THEN <<83, 73, 71, 33>>[i - n - 96]
                         ELSE 0]_vars

C4_Witness ==
    /\ Serialized /\ Len(content) = 1 /\ Len(data.val) = 257
    /\ data.val[98] = 83 /\ data.val[101] = 33 /\ data.val[102] = 0 /\ data.val[257] = 0

\* C5 (parse gating): from_bytes is None exactly when the input is shorter
\* than 256 bytes or the 4 bytes at offsets 96..100 of its last 256 bytes
\* are not the marker; so it is None when only the marker bytes of a
\* serialized artifact were changed.  When it is Some, content is
\* data[0 : len-256], signature footer[0:64], public_key footer[64:96].
\* It never indexes out of bounds.
C5_ParseGating ==
    parsed # Unset =>
        /\ parsed # Panic
        /\ parsed = None <=> ~HasMarker(data.val)
        /\ MagicCorrupted => parsed = None
        /\ parsed.tag = "Some" =>
             /\ parsed.val.content = Body(data.val)
             /\ parsed.val.signature = SubSeq(Footer(data.val), 1, 64)
             /\ parsed.val.public_key = SubSeq(Footer(data.val), 65, 96)

C5_Witness == MagicCorrupted /\ parsed = None /\ Len(data.val) > FOOTER_SIZE

\* C6 (idempotent detection), as claimed: is_signed is true on the
\* serialization of a signed artifact and false on the content itself.
C6_DetectionAsClaimed ==
    /\ (Serialized /\ detected # "unset") => detected = "true"
    /\ (data = Some(content) /\ detected # "unset") => detected = "false"

\* C6, amended: is_signed is true on the serialization of a signed
\* artifact, and false on the content itself unless the content carries the
\* marker at offsets len-160..len-156 (an already signed file does).
C6_Detection ==
    /\ (Serialized /\ detected # "unset") => detected = "true"
    /\ (data = Some(content) /\ detected # "unset" /\ ~HasMarker(content))
          => detected = "false"

C6_Witness ==
    /\ data = Some(content) /\ detected = "false"
    /\ Len(content) = FOOTER_SIZE /\ signed.tag = "Some"

\* C9 (detection agrees with parsing): on every buffer is_signed is true
\* iff from_bytes is Some; is_signed is false below 256 bytes and never
\* indexes out of bounds.
C9_DetectAgreesWithParse ==
    /\ detected # "panic"
    /\ (detected # "unset" /\ Len(data.val) < FOOTER_SIZE) => detected = "false"
    /\ (detected # "unset" /\ parsed # Unset) =>
          (detected = "true" <=> parsed.tag = "Some")

C9_Witness ==
    /\ detected = "false" /\ parsed = None
    /\ Len(data.val) = FOOTER_SIZE - 1
    /\ SubSeq(data.val, Len(data.val) - 159, Len(data.val) - 156) = MAGIC

\* C10 (truncation): from_bytes is None on a serialized artifact without
\* its last byte, whatever the content, signature and public key.
C10_TruncationDetected ==
    (Truncated /\ parsed # Unset) => parsed = None

C10_Witness ==
    /\ Truncated /\ parsed = None /\ Len(content) > 0
    /\ signed.val.public_key[PUBLIC_KEY_LEN] = MAGIC[1]

---------------------------------------------------------------------------
(* Properties of the bindings *)

\* C7 (outcome classes of verify_file): for a readable file, the result is
\* the "Not a signed file" error iff from_bytes is None; otherwise the
\* InvalidKey error iff the embedded 32 public-key bytes do not decode to a
\* verification key; otherwise false iff the signature does not verify
\* against the digest of the content, and true iff it does.
C7_OutcomeClasses ==
    (ret.op = "verify_file" /\ Readable(fs, ret.path)) =>
        LET d == fs[ret.path]
            r == ret.result
        IN IF ~HasMarker(d)
           THEN r = Err("PyValueError", "Not a signed file")
           ELSE LET pk == SubSeq(Footer(d), 65, 96)
                    sig == SubSeq(Footer(d), 1, 64)
                IN /\ from_bytes(d).tag = "Some"
                   /\ IF ~IsValidPoint(pk)
                      THEN r = Err("PyRuntimeError", "Invalid key length")
                      ELSE IF ed25519_verify(pk, blake3_hash(Body(d)), sig)
                           THEN r = Ok("true")
                           ELSE r = Ok("false")

C7_Witness ==
    /\ ret.op = "verify_file" /\ ret.path = "doc.signed"
    /\ Readable(fs, "doc.signed")
    /\ ret.result = Err("PyRuntimeError", "Invalid key length")

\* C8 (key length), as claimed: sign_file fails and writes nothing whenever
\* the key file is not exactly 32 bytes long, shorter or longer; it
\* succeeds, returning <path>.signed, only when both files are readable and
\* the key file holds exactly 32 bytes.
C8_KeyLengthAsClaimed ==
    ret.op = "sign_file" =>
        /\ (Readable(fs, ret.key_path) /\ Len(fs[ret.key_path]) # 32) =>
              (ret.result.tag # "Ok" /\ ret.wrote = {})
        /\ ret.result.tag = "Ok" =>
              /\ ret.result.val = ret.path \o ".signed"
              /\ Readable(fs, ret.path) /\ Readable(fs, ret.key_path)
              /\ Len(fs[ret.key_path]) = 32

====
